---------------------------- MODULE Spec2Model ----------------------------
(***************************************************************************)
(* GreenHouse front end: the selection flow of App.jsx (six useState       *)
(* cells), the upload control ImageUpload.handleFiles with its             *)
(* uncancellable classification request, PredictionSelector and the        *)
(* buttons of PlantInfo.                                                   *)
(*                                                                         *)
(* One action is one browser event handler run to completion (the UI is    *)
(* single-threaded): a user event, or the resumption of handleFiles after  *)
(* `await identifyPlantWithCNN(file)`.  The setState calls of one handler  *)
(* take effect together before the next event is handled.                  *)
(***************************************************************************)
EXTENDS Integers, Sequences, FiniteSets, TLC

(***************************************************************************)
(* Bounds of the model.                                                    *)
(***************************************************************************)
\* longest all_predictions array a response carries
MaxPredictions == 2
\* most classification requests in flight at once (the code has no limit)
MaxOutstanding == 2

(***************************************************************************)
(* Values.                                                                 *)
(***************************************************************************)
\* JS null for the plantData cell: a record no plant object equals
Null == [isNull |-> TRUE]
\* JS null for the error cell
NoError == "null"

Names == {"Ivy", "Pothos"}

RECURSIVE SeqsUpTo(_, _)
SeqsUpTo(S, n) ==
    IF n = 0 THEN {<<>>}
    ELSE LET shorter == SeqsUpTo(S, n - 1)
         IN  shorter \cup {Append(s, e) : s \in {t \in shorter : Len(t) = n - 1}, e \in S}

\* the confidence (in percent) the classifier gives a label in this model
ConfidenceOf(name) == IF name = "Ivy" THEN 90 ELSE 50

\* An entry of all_predictions.  The backend that builds the entries is not
\* part of the front end: an entry has a name and a confidence, and the
\* entries of one response either all carry the care record and url that
\* handlePlantSelect reads from them, or none does (care = "undefined").
\* The front end does not check the order of the entries, so every order
\* is an input.
Prediction(name, care) ==
    [name |-> name, confidence |-> ConfidenceOf(name), care |-> care]

PredictionLists ==
    {[k \in 1..Len(ns) |-> Prediction(ns[k], care)] :
        ns \in SeqsUpTo(Names, MaxPredictions), care \in {"record", "undefined"}}

\* file.type as a sequence of characters
ImagePrefix == <<"i", "m", "a", "g", "e", "/">>
FileTypes ==
    { <<"i", "m", "a", "g", "e", "/", "p", "n", "g">>,
      <<"i", "m", "a", "g", "e">>,
      <<"t", "e", "x", "t", "/", "i", "m", "a", "g", "e", "/">>,
      <<>> }

\* 10 * 1024 * 1024
MaxFileSize == 10 * 1024 * 1024
FileSizes == {MaxFileSize - 1, MaxFileSize, MaxFileSize + 1}
Files == [type : FileTypes, size : FileSizes]

MsgNotImage == "Please upload an image file"
MsgTooLarge == "File size must be less than 10MB"
MsgNotIdentified == "Could not identify the plant. Please try again with a clearer image."
MsgFailed == "Failed to identify plant. Please try again with a clearer image."

\* String.prototype.startsWith
StartsWith(s, prefix) ==
    /\ Len(s) >= Len(prefix)
    /\ SubSeq(s, 1, Len(prefix)) = prefix

\* a size check that also turns away a file of exactly 10 MB
ValidationError_SizeInclusive(file) ==
    IF ~StartsWith(file.type, ImagePrefix) THEN MsgNotImage
    ELSE IF file.size >= MaxFileSize THEN MsgTooLarge
    ELSE NoError

\* the two checks at the head of handleFiles: the message handed to onError,
\* or NoError when the file passes
ValidationError(file) ==
    IF ~StartsWith(file.type, ImagePrefix) THEN MsgNotImage
    ELSE IF file.size > MaxFileSize THEN MsgTooLarge
    ELSE NoError

(***************************************************************************)
(* What the backend can answer to POST /api/plants/identify.               *)
(***************************************************************************)
Responses ==
    {[kind |-> k] : k \in {"networkError", "httpError", "notSuccess", "noPlant"}}
    \cup
    \* result.plant without a name
    {[kind |-> "plant", name |-> "", hasCare |-> TRUE, hasAll |-> FALSE, all |-> <<>>]}
    \cup
    \* the backend's plant is its top match: the first entry of
    \* all_predictions, when that array is not empty
    {r \in [kind : {"plant"},
            name : Names,                    \* result.plant.name
            hasCare : BOOLEAN,               \* result.plant.care present
            hasAll : {TRUE},                 \* result.all_predictions present
            all : PredictionLists] :
        r.all # <<>> => r.name = r.all[1].name}
    \cup
    [kind : {"plant"},
     name : Names,
     hasCare : BOOLEAN,
     hasAll : {FALSE},                       \* result.all_predictions missing
     all : {<<>>}]

\* result.plant.confidence as the backend sets it: the top label's confidence
PlantConfidence(resp) == ConfidenceOf(resp.name)

\* identifyPlantWithCNN: how the promise settles.  Every failure inside its
\* try block (fetch rejecting, !response.ok, success false, no plant) is
\* caught and turned into `return null`, so it never rejects.
identifyPlantWithCNN(resp) ==
    IF resp.kind = "plant"
    THEN [threw |-> FALSE,
          value |-> [name |-> resp.name,
                     care |-> IF resp.hasCare THEN "record" ELSE "{}",
                     url |-> "url",
                     confidence |-> PlantConfidence(resp),
                     predictions |-> IF resp.hasAll THEN resp.all ELSE <<>>]]
    ELSE [threw |-> FALSE, value |-> Null]

(***************************************************************************)
(* State.                                                                  *)
(***************************************************************************)
VARIABLES
    plantData,                 \* App: useState(null)
    loading,                   \* App: useState(false)
    error,                     \* App: useState(null)
    showPredictions,           \* App: useState(false)
    predictions,               \* App: useState([])
    selectedFromPredictions,   \* App: useState(false)
    outstanding,               \* requests issued since the last reset, not completed
    staleOutstanding,          \* requests issued before the last reset, not completed
    crashed,                   \* a render threw: React has unmounted the whole tree
    plantOrigin,               \* history: which handler built plantData
    lastOp,                    \* history: the handler that ran last
    responseAll,               \* history: all_predictions of the response behind
                               \* plantData (<<>> when no response is behind it)
    call,                      \* a helper function under test: its name and arguments
    ret                        \* what that call returned

\* the value of lastOp after a handler that takes no input
Op(name) == [op |-> name]

\* no helper function has been called
NoCall == [fn |-> "none"]

uiVars == <<plantData, loading, error, showPredictions, predictions,
            selectedFromPredictions, outstanding, staleOutstanding,
            crashed, plantOrigin, lastOp, responseAll>>
fnVars == <<call, ret>>
vars == <<uiVars, fnVars>>

Init ==
    /\ plantData = Null
    /\ loading = FALSE
    /\ error = NoError
    /\ showPredictions = FALSE
    /\ predictions = <<>>
    /\ selectedFromPredictions = FALSE
    /\ outstanding = 0
    /\ staleOutstanding = 0
    /\ crashed = FALSE
    /\ plantOrigin = "none"
    /\ lastOp = Op("init")
    /\ responseAll = <<>>
    /\ call = NoCall
    /\ ret = NoCall

(***************************************************************************)
(* What App renders: which controls the user can reach.                    *)
(***************************************************************************)
\* {!plantData && !loading && !showPredictions && <ImageUpload/>}
ImageUploadVisible == ~crashed /\ plantData = Null /\ ~loading /\ ~showPredictions
\* {loading && <LoadingSpinner />}
SpinnerVisible == ~crashed /\ loading
\* an error container that gives way to the spinner
ErrorContainerVisible_HiddenWhileLoading == ~crashed /\ error # NoError /\ ~loading

\* {error && <div className="error-container"> ... retry-btn}
ErrorContainerVisible == ~crashed /\ error # NoError
\* {showPredictions && <PredictionSelector/>}
PredictionSelectorVisible == ~crashed /\ showPredictions
\* {plantData && !showPredictions && <PlantInfo/>}
PlantInfoVisible == ~crashed /\ plantData # Null /\ ~showPredictions

\* PlantInfo's render reads care.light_requirements (radarData,
\* calculateDifficulty): a TypeError when care is undefined
PlantInfoThrows(data) == data.care = "undefined"

\* PlantInfo: selectedFromPredictions ? Back : Try Again (disabled without predictions)
BackButtonVisible == PlantInfoVisible /\ selectedFromPredictions
TryAgainEnabled ==
    /\ PlantInfoVisible
    /\ ~selectedFromPredictions
    /\ "predictions" \in DOMAIN plantData
    /\ Len(plantData.predictions) > 0

\* the three places handleReset is wired to
ResetAvailable ==
    ErrorContainerVisible \/ PredictionSelectorVisible \/ PlantInfoVisible

(***************************************************************************)
(* App's handlers, as the assignments they make.                           *)
(***************************************************************************)
\* a success handler that forgets setError(null)
handlePlantIdentified_KeepsError(data) ==
    /\ plantData' = data
    /\ showPredictions' = FALSE
    /\ UNCHANGED error

handlePlantIdentified(data) ==
    /\ plantData' = data
    /\ error' = NoError
    /\ showPredictions' = FALSE

\* an error handler that forgets setShowPredictions(false)
handleError_KeepsList(errorMessage) ==
    /\ error' = errorMessage
    /\ plantData' = Null
    /\ UNCHANGED showPredictions

handleError(errorMessage) ==
    /\ error' = errorMessage
    /\ plantData' = Null
    /\ showPredictions' = FALSE

(***************************************************************************)
(* Actions.                                                                *)
(***************************************************************************)
\* ImageUpload.handleFiles up to its await: validation, then the request
HandleFiles(file) ==
    /\ ImageUploadVisible
    /\ IF ValidationError(file) # NoError
       THEN /\ handleError(ValidationError(file))
            /\ plantOrigin' = "none"
            /\ responseAll' = <<>>
            /\ UNCHANGED <<loading, outstanding>>
       ELSE /\ outstanding + staleOutstanding < MaxOutstanding
            /\ loading' = TRUE
            /\ outstanding' = outstanding + 1
            /\ UNCHANGED <<plantData, error, showPredictions, plantOrigin,
                           responseAll>>
    /\ lastOp' = [op |-> "handleFiles", file |-> file]
    /\ UNCHANGED <<predictions, selectedFromPredictions, staleOutstanding, crashed>>
    /\ UNCHANGED fnVars

\* a completion whose `finally` does not call onLoadingChange(false)
Complete_SpinnerLeftOn(stale, resp) ==
    /\ IF stale
       THEN /\ staleOutstanding > 0
            /\ staleOutstanding' = staleOutstanding - 1
            /\ UNCHANGED outstanding
       ELSE /\ outstanding > 0
            /\ outstanding' = outstanding - 1
            /\ UNCHANGED staleOutstanding
    /\ IF crashed
       THEN UNCHANGED <<plantData, error, showPredictions, plantOrigin, responseAll>>
       ELSE LET data == identifyPlantWithCNN(resp).value
            IN  IF data # Null /\ data.name # ""
                THEN /\ handlePlantIdentified(data)
                     /\ plantOrigin' = "upload"
                     /\ responseAll' = IF resp.hasAll THEN resp.all ELSE <<>>
                ELSE /\ handleError(MsgNotIdentified)
                     /\ plantOrigin' = "none"
                     /\ responseAll' = <<>>
    /\ lastOp' = IF stale THEN Op("completedStale") ELSE Op("completed")
    /\ UNCHANGED <<loading, predictions, selectedFromPredictions, crashed>>
    /\ UNCHANGED fnVars

\* ImageUpload.handleFiles from its await to the end of `finally`
Complete(stale, resp) ==
    /\ IF stale
       THEN /\ staleOutstanding > 0
            /\ staleOutstanding' = staleOutstanding - 1
            /\ UNCHANGED outstanding
       ELSE /\ outstanding > 0
            /\ outstanding' = outstanding - 1
            /\ UNCHANGED staleOutstanding
    /\ IF crashed
       THEN \* App is unmounted: its setters no longer change anything
            UNCHANGED <<plantData, error, showPredictions, loading, plantOrigin,
                        responseAll>>
       ELSE /\ LET settled == identifyPlantWithCNN(resp)
                   data == settled.value
               IN  IF settled.threw
                   THEN /\ handleError(MsgFailed)
                        /\ plantOrigin' = "none"
                        /\ responseAll' = <<>>
                   ELSE IF data # Null /\ data.name # ""
                   THEN /\ handlePlantIdentified(data)
                        /\ plantOrigin' = "upload"
                        /\ responseAll' = IF resp.hasAll THEN resp.all ELSE <<>>
                   ELSE /\ handleError(MsgNotIdentified)
                        /\ plantOrigin' = "none"
                        /\ responseAll' = <<>>
            /\ loading' = FALSE
    /\ lastOp' = IF stale THEN Op("completedStale") ELSE Op("completed")
    /\ UNCHANGED <<predictions, selectedFromPredictions, crashed>>
    /\ UNCHANGED fnVars

\* a reset that forgets setPredictions([])
HandleReset_KeepsPredictions ==
    /\ ResetAvailable
    /\ plantData' = Null
    /\ error' = NoError
    /\ loading' = FALSE
    /\ showPredictions' = FALSE
    /\ selectedFromPredictions' = FALSE
    /\ staleOutstanding' = staleOutstanding + outstanding
    /\ outstanding' = 0
    /\ plantOrigin' = "none"
    /\ lastOp' = Op("reset")
    /\ responseAll' = <<>>
    /\ UNCHANGED <<predictions, crashed>>
    /\ UNCHANGED fnVars

\* App.handleReset, from the retry button, Take New Photo or Upload New Photo
HandleReset ==
    /\ ResetAvailable
    /\ plantData' = Null
    /\ error' = NoError
    /\ loading' = FALSE
    /\ showPredictions' = FALSE
    /\ predictions' = <<>>
    /\ selectedFromPredictions' = FALSE
    /\ staleOutstanding' = staleOutstanding + outstanding
    /\ outstanding' = 0
    /\ plantOrigin' = "none"
    /\ lastOp' = Op("reset")
    /\ responseAll' = <<>>
    /\ UNCHANGED crashed
    /\ UNCHANGED fnVars

\* a Try Again that leaves the top match out of the list
HandleTryAgain_DropsTopMatch ==
    /\ TryAgainEnabled
    /\ predictions' = Tail(plantData.predictions)
    /\ showPredictions' = TRUE
    /\ plantData' = Null
    /\ selectedFromPredictions' = FALSE
    /\ plantOrigin' = "none"
    /\ lastOp' = Op("tryAgain")
    /\ responseAll' = <<>>
    /\ UNCHANGED <<loading, error, outstanding, staleOutstanding, crashed>>
    /\ UNCHANGED fnVars

\* PlantInfo.handleTryAgain -> App.handleShowPredictions
HandleTryAgain ==
    /\ TryAgainEnabled
    /\ predictions' = plantData.predictions
    /\ showPredictions' = TRUE
    /\ plantData' = Null
    /\ selectedFromPredictions' = FALSE
    /\ plantOrigin' = "none"
    /\ lastOp' = Op("tryAgain")
    /\ responseAll' = <<>>
    /\ UNCHANGED <<loading, error, outstanding, staleOutstanding, crashed>>
    /\ UNCHANGED fnVars

\* the object PredictionSelector.handlePlantSelect builds from an entry; it
\* has no predictions field
SelectedPlant(prediction) ==
    [name |-> prediction.name,
     care |-> prediction.care,
     url |-> IF prediction.care = "undefined" THEN "undefined" ELSE "url",
     confidence |-> prediction.confidence]

\* PredictionSelector.handlePlantSelect -> App.handleSelectFromPredictions
HandlePlantSelect(i) ==
    /\ PredictionSelectorVisible
    /\ i \in 1..Len(predictions)
    /\ plantData' = SelectedPlant(predictions[i])
    /\ showPredictions' = FALSE
    /\ selectedFromPredictions' = TRUE
    /\ crashed' = PlantInfoThrows(SelectedPlant(predictions[i]))
    /\ plantOrigin' = "selection"
    /\ lastOp' = Op("select")
    /\ responseAll' = <<>>
    /\ UNCHANGED <<loading, error, predictions, outstanding, staleOutstanding>>
    /\ UNCHANGED fnVars

\* PlantInfo Back button -> App.handleBackToPredictions
HandleBackToPredictions ==
    /\ BackButtonVisible
    /\ showPredictions' = TRUE
    /\ selectedFromPredictions' = FALSE
    /\ lastOp' = Op("back")
    /\ UNCHANGED <<plantData, loading, error, predictions, outstanding,
                   staleOutstanding, crashed, plantOrigin, responseAll>>
    /\ UNCHANGED fnVars

Upload == \E file \in Files : HandleFiles(file)
Completion == \E stale \in BOOLEAN, resp \in Responses : Complete(stale, resp)
Select == \E i \in 1..MaxPredictions + 1 : HandlePlantSelect(i)

Next ==
    \/ Upload
    \/ Completion
    \/ HandleReset
    \/ HandleTryAgain
    \/ Select
    \/ HandleBackToPredictions

Spec == Init /\ [][Next]_vars

\* the network answers every request: a pending completion is eventually run
LiveSpec == Spec /\ WF_vars(Completion)

(***************************************************************************)
(* The flow's states, read off the six cells.                              *)
(***************************************************************************)
Idle ==
    /\ plantData = Null
    /\ error = NoError
    /\ ~loading
    /\ ~showPredictions

TypeOK ==
    /\ loading \in BOOLEAN
    /\ showPredictions \in BOOLEAN
    /\ selectedFromPredictions \in BOOLEAN
    /\ predictions \in PredictionLists
    /\ outstanding \in 0..MaxOutstanding
    /\ staleOutstanding \in 0..MaxOutstanding
    /\ crashed \in BOOLEAN

(***************************************************************************)
(* The flow's states beyond Idle.                                          *)
(***************************************************************************)
\* the spinner alone: a request is being waited for and no error is shown
LoadingOnly ==
    /\ loading
    /\ plantData = Null
    /\ error = NoError
    /\ ~showPredictions

Result == plantData # Null /\ error = NoError /\ ~loading /\ ~showPredictions
ErrorState == error # NoError /\ plantData = Null /\ ~loading /\ ~showPredictions

(***************************************************************************)
(* JavaScript strings, as sequences of one-character strings, and the      *)
(* String and Array methods the helper functions call.                     *)
(***************************************************************************)
\* JS undefined: what Array.prototype.find and a missing property give
Undefined == [isUndefined |-> TRUE]

UpperCaseLetters ==
    <<"A", "B", "C", "D", "E", "F", "G", "H", "I", "J", "K", "L", "M", "N",
      "O", "P", "Q", "R", "S", "T", "U", "V", "W", "X", "Y", "Z">>
LowerCaseLetters ==
    <<"a", "b", "c", "d", "e", "f", "g", "h", "i", "j", "k", "l", "m", "n",
      "o", "p", "q", "r", "s", "t", "u", "v", "w", "x", "y", "z">>

\* the lower-case letter of every upper-case letter
lowerCaseOf ==
    [c \in {UpperCaseLetters[k] : k \in 1..26} |->
        LowerCaseLetters[CHOOSE k \in 1..26 : UpperCaseLetters[k] = c]]

\* String.prototype.toLowerCase (SubSeq makes the result a sequence)
toLowerCase(s) ==
    SubSeq([i \in 1..Len(s) |->
               IF s[i] \in DOMAIN lowerCaseOf THEN lowerCaseOf[s[i]] ELSE s[i]],
           1, Len(s))

WhiteSpace == {" ", "\t", "\n"}

\* String.prototype.trim
trim(s) ==
    LET kept == {i \in 1..Len(s) : s[i] \notin WhiteSpace}
    IN  IF kept = {} THEN <<>>
        ELSE SubSeq(s, CHOOSE i \in kept : \A j \in kept : i <= j,
                       CHOOSE i \in kept : \A j \in kept : i >= j)

\* an includes that looks at the start of the string only
includes_AtStart(s, t) == StartsWith(s, t)

\* String.prototype.includes: the empty string is included in every string
includes(s, t) ==
    \E i \in 1..(Len(s) - Len(t) + 1) : SubSeq(s, i, i + Len(t) - 1) = t

\* Array.prototype.find, given the positions whose element passes the test:
\* the first element that passes, or undefined
find(arr, passing) ==
    IF passing = {} THEN Undefined
    ELSE arr[CHOOSE i \in passing : \A j \in passing : i <= j]

(***************************************************************************)
(* The plant catalog and getPlantCareData.                                 *)
(***************************************************************************)
\* longest catalog among the small catalogs the resolver is run on
MaxCatalog == 3

\* mockPlantIdentification's availablePlants: the species of the catalog
availablePlants ==
    << <<"A", "l", "o", "c", "a", "s", "i", "a">>,
       <<"A", "l", "o", "e">>,
       <<"A", "n", "t", "h", "u", "r", "i", "u", "m">>,
       <<"B", "e", "g", "o", "n", "i", "a">>,
       <<"B", "i", "r", "d", " ", "o", "f", " ", "P", "a", "r", "a", "d",
           "i", "s", "e">>,
       <<"C", "a", "l", "a", "t", "h", "e", "a">>,
       <<"C", "h", "i", "n", "e", "s", "e", " ", "E", "v", "e", "r", "g",
           "r", "e", "e", "n">>,
       <<"C", "t", "e", "n", "a", "n", "t", "h", "e">>,
       <<"D", "i", "e", "f", "f", "e", "n", "b", "a", "c", "h", "i", "a">>,
       <<"D", "r", "a", "c", "a", "e", "n", "a">>,
       <<"F", "i", "c", "u", "s">>,
       <<"H", "y", "p", "o", "e", "s", "t", "e", "s">>,
       <<"I", "v", "y">>,
       <<"M", "a", "r", "a", "n", "t", "a">>,
       <<"M", "o", "n", "e", "y", " ", "T", "r", "e", "e">>,
       <<"M", "o", "n", "s", "t", "e", "r", "a">>,
       <<"P", "e", "a", "c", "e", " ", "L", "i", "l", "y">>,
       <<"P", "o", "i", "n", "s", "e", "t", "t", "i", "a">>,
       <<"P", "o", "t", "h", "o", "s">>,
       <<"S", "c", "h", "e", "f", "f", "l", "e", "r", "a">>,
       <<"S", "n", "a", "k", "e", " ", "P", "l", "a", "n", "t">>,
       <<"Y", "u", "c", "c", "a">>,
       <<"Z", "a", "m", "i", "o", "c", "u", "l", "c", "a", "s", " ", "Z",
           "a", "m", "i", "i", "f", "o", "l", "i", "a", " ", "'", "Z", "Z",
           "'">> >>

\* plant_care_data.json is an array of records with a name; the records of
\* the shipped catalog carry the species names above, in that order
KnownCatalog == [i \in 1..Len(availablePlants) |-> [name |-> availablePlants[i]]]

\* names for small catalogs: two species, and names that contain another
CatalogNames ==
    { <<"I", "v", "y">>,
      <<"E", "n", "g", "l", "i", "s", "h", " ", "I", "v", "y">>,
      <<"P", "o", "t", "h", "o", "s">>,
      <<"S", "n", "a", "k", "e", " ", "P", "l", "a", "n", "t">>,
      <<"A", "l", "o", "e">> }

\* every catalog of at most MaxCatalog of these names, in every order
SmallCatalogs ==
    {[i \in 1..Len(ns) |-> [name |-> ns[i]]] :
        ns \in {s \in SeqsUpTo(CatalogNames, MaxCatalog) :
                  \A i, j \in 1..Len(s) : i # j => s[i] # s[j]}}

\* the literal nameMapping inside getPlantCareData: <<key, canonical name>>
nameMapping ==
    << <<<<"z", "z", " ", "p", "l", "a", "n", "t">>,
         <<"Z", "a", "m", "i", "o", "c", "u", "l", "c", "a", "s", " ", "Z",
           "a", "m", "i", "i", "f", "o", "l", "i", "a", " ", "'", "Z", "Z",
           "'">>>>,
       <<<<"z", "z">>,
         <<"Z", "a", "m", "i", "o", "c", "u", "l", "c", "a", "s", " ", "Z",
           "a", "m", "i", "i", "f", "o", "l", "i", "a", " ", "'", "Z", "Z",
           "'">>>>,
       <<<<"z", "a", "m", "i", "o", "c", "u", "l", "c", "a", "s">>,
         <<"Z", "a", "m", "i", "o", "c", "u", "l", "c", "a", "s", " ", "Z",
           "a", "m", "i", "i", "f", "o", "l", "i", "a", " ", "'", "Z", "Z",
           "'">>>>,
       <<<<"c", "h", "i", "n", "e", "s", "e", " ", "e", "v", "e", "r",
             "g", "r", "e", "e", "n">>,
         <<"C", "h", "i", "n", "e", "s", "e", " ", "E", "v", "e", "r", "g",
           "r", "e", "e", "n">>>>,
       <<<<"a", "g", "l", "a", "o", "n", "e", "m", "a">>,
         <<"C", "h", "i", "n", "e", "s", "e", " ", "E", "v", "e", "r", "g",
           "r", "e", "e", "n">>>>,
       <<<<"b", "i", "r", "d", " ", "o", "f", " ", "p", "a", "r", "a",
             "d", "i", "s", "e">>,
         <<"B", "i", "r", "d", " ", "o", "f", " ", "P", "a", "r", "a", "d",
           "i", "s", "e">>>>,
       <<<<"s", "t", "r", "e", "l", "i", "t", "z", "i", "a">>,
         <<"B", "i", "r", "d", " ", "o", "f", " ", "P", "a", "r", "a", "d",
           "i", "s", "e">>>>,
       <<<<"p", "r", "a", "y", "e", "r", " ", "p", "l", "a", "n", "t">>,
         <<"M", "a", "r", "a", "n", "t", "a">>>>,
       <<<<"p", "o", "l", "k", "a", " ", "d", "o", "t", " ", "p", "l",
             "a", "n", "t">>,
         <<"H", "y", "p", "o", "e", "s", "t", "e", "s">>>>,
       <<<<"d", "e", "v", "i", "l", "'", "s", " ", "i", "v", "y">>,
         <<"P", "o", "t", "h", "o", "s">>>>,
       <<<<"g", "o", "l", "d", "e", "n", " ", "p", "o", "t", "h", "o",
             "s">>,
         <<"P", "o", "t", "h", "o", "s">>>>,
       <<<<"s", "a", "n", "s", "e", "v", "i", "e", "r", "i", "a">>,
         <<"S", "n", "a", "k", "e", " ", "P", "l", "a", "n", "t">>>>,
       <<<<"m", "o", "t", "h", "e", "r", " ", "i", "n", " ", "l", "a",
             "w", " ", "t", "o", "n", "g", "u", "e">>,
         <<"S", "n", "a", "k", "e", " ", "P", "l", "a", "n", "t">>>> >>

\* the property names every object literal inherits from Object.prototype
\* that are spelled in lower case
InheritedKeys ==
    { <<"c", "o", "n", "s", "t", "r", "u", "c", "t", "o", "r">>,
      <<"_", "_", "p", "r", "o", "t", "o", "_", "_">> }

\* a lookup that maps every unknown key to the last name of the table
nameMappingAt_Default(key) ==
    IF \E k \in 1..Len(nameMapping) : nameMapping[k][1] = key
    THEN nameMapping[CHOOSE k \in 1..Len(nameMapping) : nameMapping[k][1] = key][2]
    ELSE nameMapping[Len(nameMapping)][2]

\* nameMapping[key]: the mapped name, an inherited (truthy, non-string)
\* value, or undefined
nameMappingAt(key) ==
    IF \E k \in 1..Len(nameMapping) : nameMapping[k][1] = key
    THEN nameMapping[CHOOSE k \in 1..Len(nameMapping) : nameMapping[k][1] = key][2]
    ELSE IF key \in InheritedKeys THEN [inherited |-> TRUE]
    ELSE Undefined

\* a resolver that goes straight to the partial match
getPlantCareData_PartialMatchOnly(plantName, plantCareData) ==
    IF plantName = <<>> THEN Null
    ELSE LET normalizedName == trim(toLowerCase(plantName))
         IN  find(plantCareData,
                  {i \in 1..Len(plantCareData) :
                      \/ includes(toLowerCase(plantCareData[i].name), normalizedName)
                      \/ includes(normalizedName, toLowerCase(plantCareData[i].name))})

\* getPlantCareData(plantName), over the catalog it imports
getPlantCareData(plantName, plantCareData) ==
    IF plantName = <<>> THEN Null
    ELSE LET normalizedName == trim(toLowerCase(plantName))
             \* Direct match
             direct ==
                 find(plantCareData,
                      {i \in 1..Len(plantCareData) :
                          toLowerCase(plantCareData[i].name) = normalizedName})
             \* Partial match if direct match fails
             partial ==
                 IF direct = Undefined
                 THEN find(plantCareData,
                           {i \in 1..Len(plantCareData) :
                               \/ includes(toLowerCase(plantCareData[i].name), normalizedName)
                               \/ includes(normalizedName, toLowerCase(plantCareData[i].name))})
                 ELSE direct
         IN  \* Try alternative names/mappings
             IF partial = Undefined /\ nameMappingAt(normalizedName) # Undefined
             THEN find(plantCareData,
                       {i \in 1..Len(plantCareData) :
                           plantCareData[i].name = nameMappingAt(normalizedName)})
             ELSE partial

\* labels the resolver is asked for: the catalog names in several letter
\* cases and with blanks around them, parts of names, names with more text
\* around them, unknown names, the empty and the blank label, and the keys
\* of nameMapping
Labels ==
    { <<"I", "v", "y">>,
      <<"i", "v", "y">>,
      <<"I", "V", "Y">>,
      <<" ", " ", "I", "v", "y", " ">>,
      <<"E", "n", "g", "l", "i", "s", "h", " ", "I", "v", "y">>,
      <<"e", "n", "g", "l", "i", "s", "h", " ", "i", "v", "y">>,
      <<"E", "N", "G", "L", "I", "S", "H", " ", "I", "V", "Y">>,
      <<" ", " ", "E", "n", "g", "l", "i", "s", "h", " ", "I", "v", "y",
          " ">>,
      <<"P", "o", "t", "h", "o", "s">>,
      <<"p", "o", "t", "h", "o", "s">>,
      <<"P", "O", "T", "H", "O", "S">>,
      <<" ", " ", "P", "o", "t", "h", "o", "s", " ">>,
      <<"S", "n", "a", "k", "e", " ", "P", "l", "a", "n", "t">>,
      <<"s", "n", "a", "k", "e", " ", "p", "l", "a", "n", "t">>,
      <<"S", "N", "A", "K", "E", " ", "P", "L", "A", "N", "T">>,
      <<" ", " ", "S", "n", "a", "k", "e", " ", "P", "l", "a", "n", "t",
          " ">>,
      <<"A", "l", "o", "e">>,
      <<"a", "l", "o", "e">>,
      <<"A", "L", "O", "E">>,
      <<" ", " ", "A", "l", "o", "e", " ">>,
      <<"i", "v">>,
      <<"p", "l", "a", "n", "t">>,
      <<"e", "n", "g", "l", "i", "s", "h", " ", "i", "v", "y", " ", "p",
          "l", "a", "n", "t">>,
      <<"f", "e", "r", "n">>,
      <<>>,
      <<" ">>,
      <<" ", " ", " ">>,
      <<"c", "o", "n", "s", "t", "r", "u", "c", "t", "o", "r">>,
      <<"D", "e", "v", "i", "l", "'", "s", " ", "I", "v", "y">>,
      <<" ", "Z", "Z", " ">>,
      <<"G", "o", "l", "d", "e", "n", " ", "P", "o", "t", "h", "o", "s">>,
      <<"z", "z", " ", "p", "l", "a", "n", "t">>,
      <<"z", "z">>,
      <<"z", "a", "m", "i", "o", "c", "u", "l", "c", "a", "s">>,
      <<"c", "h", "i", "n", "e", "s", "e", " ", "e", "v", "e", "r", "g",
          "r", "e", "e", "n">>,
      <<"a", "g", "l", "a", "o", "n", "e", "m", "a">>,
      <<"b", "i", "r", "d", " ", "o", "f", " ", "p", "a", "r", "a", "d",
          "i", "s", "e">>,
      <<"s", "t", "r", "e", "l", "i", "t", "z", "i", "a">>,
      <<"p", "r", "a", "y", "e", "r", " ", "p", "l", "a", "n", "t">>,
      <<"p", "o", "l", "k", "a", " ", "d", "o", "t", " ", "p", "l", "a",
          "n", "t">>,
      <<"d", "e", "v", "i", "l", "'", "s", " ", "i", "v", "y">>,
      <<"g", "o", "l", "d", "e", "n", " ", "p", "o", "t", "h", "o", "s">>,
      <<"s", "a", "n", "s", "e", "v", "i", "e", "r", "i", "a">>,
      <<"m", "o", "t", "h", "e", "r", " ", "i", "n", " ", "l", "a", "w",
          " ", "t", "o", "n", "g", "u", "e">> }

(***************************************************************************)
(* Calls of the helper functions.  The flow's cells stay as Init left      *)
(* them; call and ret hold the arguments and the value returned.           *)
(***************************************************************************)
CallGetPlantCareData ==
    /\ call = NoCall
    /\ \E label \in Labels, catalog \in SmallCatalogs \cup {KnownCatalog} :
        /\ call' = [fn |-> "getPlantCareData", plantName |-> label,
                                               plantCareData |-> catalog]
        /\ ret' = getPlantCareData(label, catalog)
        /\ UNCHANGED uiVars

\* getLocalPlantCareData(plantName): the resolver of the second
\* plantDataService, without the table of name variations
getLocalPlantCareData(plantName, plantCareData) ==
    IF plantName = <<>> THEN Null
    ELSE LET normalizedName == trim(toLowerCase(plantName))
             \* Direct match
             direct ==
                 find(plantCareData,
                      {i \in 1..Len(plantCareData) :
                          toLowerCase(plantCareData[i].name) = normalizedName})
         IN  \* Partial match if direct match fails
             IF direct = Undefined
             THEN find(plantCareData,
                       {i \in 1..Len(plantCareData) :
                           \/ includes(toLowerCase(plantCareData[i].name), normalizedName)
                           \/ includes(normalizedName, toLowerCase(plantCareData[i].name))})
             ELSE direct

CallGetLocalPlantCareData ==
    /\ call = NoCall
    /\ \E label \in Labels, catalog \in SmallCatalogs \cup {KnownCatalog} :
        /\ call' = [fn |-> "getLocalPlantCareData", plantName |-> label,
                                                    plantCareData |-> catalog]
        /\ ret' = getLocalPlantCareData(label, catalog)
        /\ UNCHANGED uiVars

(***************************************************************************)
(* PlantInfo: getCareLevel and calculateDifficulty.                        *)
(***************************************************************************)
\* a care field the record lacks (care.watering_needs of {} is undefined),
\* written as a one-element sequence that no string equals
NoText == <<"undefined">>

\* `let result = 3`: the level when no pattern of the dimension is found
result == 3

\* case 'light'
caseLight(text) ==
    IF
        \/ includes(text, <<"f", "u", "l", "l", " ", "s", "u", "n">>)
        \/ includes(text, <<"d", "i", "r", "e", "c", "t", " ", "s", "u", "n", "l", "i", "g",
                              "h", "t">>)
        \/ includes(text, <<"f", "u", "l", "l", " ", "s", "u", "n", "l", "i", "g", "h", "t">>)
    THEN 5
    ELSE IF
        \/ (includes(text, <<"b", "r", "i", "g", "h", "t">>)
            /\ includes(text, <<"i", "n", "d", "i", "r", "e", "c", "t">>))
    THEN 3
    ELSE IF
        \/ includes(text, <<"l", "o", "w", " ", "l", "i", "g", "h", "t">>)
        \/ includes(text, <<"t", "o", "l", "e", "r", "a", "t", "e", " ", "l", "o", "w">>)
    THEN 1
    ELSE IF
        \/ includes(text, <<"b", "r", "i", "g", "h", "t">>)
    THEN 4
    ELSE IF
        \/ includes(text, <<"p", "a", "r", "t", "i", "a", "l", " ", "s", "h", "a", "d", "e">>)
        \/ includes(text, <<"s", "h", "a", "d", "e">>)
    THEN 2
    ELSE result

\* a water case that looks for the dry patterns before the moist ones
caseWater_DryFirst(text) ==
    IF
        \/ includes(text, <<"d", "r", "y", " ", "o", "u", "t", " ", "c", "o", "m", "p", "l",
                              "e", "t", "e", "l", "y">>)
        \/ includes(text, <<"d", "r", "o", "u", "g", "h", "t", "-", "t", "o", "l", "e", "r",
                              "a", "n", "t">>)
        \/ includes(text, <<"s", "p", "a", "r", "i", "n", "g", "l", "y">>)
    THEN 1
    ELSE IF
        \/ includes(text, <<"c", "o", "n", "s", "i", "s", "t", "e", "n", "t", "l", "y", " ",
                              "m", "o", "i", "s", "t">>)
        \/ includes(text, <<"e", "v", "e", "n", "l", "y", " ", "m", "o", "i", "s", "t">>)
    THEN 4
    ELSE IF
        \/ includes(text, <<"d", "r", "y", " ", "o", "u", "t", " ", "b", "e", "t", "w", "e",
                              "e", "n">>)
        \/ includes(text, <<"t", "o", "p", " ", "i", "n", "c", "h">>)
    THEN 2
    ELSE IF
        \/ (includes(text, <<"r", "e", "g", "u", "l", "a", "r", "l", "y">>)
            /\ ~includes(text, <<"m", "o", "i", "s", "t">>))
    THEN 3
    ELSE IF
        \/ includes(text, <<"s", "e", "n", "s", "i", "t", "i", "v", "e", " ", "t", "o", " ",
                              "d", "r", "o", "u", "g", "h", "t">>)
        \/ includes(text, <<"w", "i", "l", "t", " ", "q", "u", "i", "c", "k", "l", "y">>)
    THEN 5
    ELSE result

\* case 'water'
caseWater(text) ==
    IF
        \/ includes(text, <<"c", "o", "n", "s", "i", "s", "t", "e", "n", "t", "l", "y", " ",
                              "m", "o", "i", "s", "t">>)
        \/ includes(text, <<"e", "v", "e", "n", "l", "y", " ", "m", "o", "i", "s", "t">>)
    THEN 4
    ELSE IF
        \/ includes(text, <<"d", "r", "y", " ", "o", "u", "t", " ", "c", "o", "m", "p", "l",
                              "e", "t", "e", "l", "y">>)
        \/ includes(text, <<"d", "r", "o", "u", "g", "h", "t", "-", "t", "o", "l", "e", "r",
                              "a", "n", "t">>)
        \/ includes(text, <<"s", "p", "a", "r", "i", "n", "g", "l", "y">>)
    THEN 1
    ELSE IF
        \/ includes(text, <<"d", "r", "y", " ", "o", "u", "t", " ", "b", "e", "t", "w", "e",
                              "e", "n">>)
        \/ includes(text, <<"t", "o", "p", " ", "i", "n", "c", "h">>)
    THEN 2
    ELSE IF
        \/ (includes(text, <<"r", "e", "g", "u", "l", "a", "r", "l", "y">>)
            /\ ~includes(text, <<"m", "o", "i", "s", "t">>))
    THEN 3
    ELSE IF
        \/ includes(text, <<"s", "e", "n", "s", "i", "t", "i", "v", "e", " ", "t", "o", " ",
                              "d", "r", "o", "u", "g", "h", "t">>)
        \/ includes(text, <<"w", "i", "l", "t", " ", "q", "u", "i", "c", "k", "l", "y">>)
    THEN 5
    ELSE result

\* case 'soil'
caseSoil(text) ==
    IF
        \/ includes(text, <<"s", "u", "c", "c", "u", "l", "e", "n", "t">>)
        \/ includes(text, <<"c", "a", "c", "t", "u", "s">>)
        \/ includes(text, <<"s", "p", "e", "c", "i", "f", "i", "c", "a", "l", "l", "y", " ",
                              "d", "e", "s", "i", "g", "n", "e", "d", " ", "f", "o", "r", " ",
                              "s", "u", "c", "c", "u", "l", "e", "n", "t", "s">>)
    THEN 1
    ELSE IF
        \/ includes(text, <<"s", "t", "a", "n", "d", "a", "r", "d", " ", "p", "o", "t", "t",
                              "i", "n", "g", " ", "s", "o", "i", "l">>)
        \/ (includes(text, <<"w", "e", "l", "l", "-", "d", "r", "a", "i", "n", "i", "n",
                                  "g">>)
            /\ ~includes(text, <<"r", "i", "c", "h">>)
            /\ ~includes(text, <<"p", "e", "a", "t">>)
            /\ ~includes(text, <<"b", "a", "r", "k">>))
    THEN 2
    ELSE IF
        \/ (includes(text, <<"w", "e", "l", "l", "-", "d", "r", "a", "i", "n", "i", "n",
                                  "g">>)
            /\ (includes(text, <<"r", "i", "c", "h", " ", "i", "n", " ", "o", "r", "g",
                                      "a", "n", "i", "c">>)
                \/ includes(text, <<"p", "e", "a", "t">>)
                \/ includes(text, <<"p", "i", "n", "e", " ", "b", "a", "r", "k">>)))
    THEN 3
    ELSE IF
        \/ includes(text, <<"m", "u", "l", "t", "i", "p", "l", "e", " ", "c", "o", "m", "p",
                              "o", "n", "e", "n", "t", "s">>)
        \/ (includes(text, <<"m", "i", "x", " ", "o", "f">>)
            /\ includes(text, <<"a", "n", "d">>)
            /\ includes(text, <<"a", "n", "d">>))
    THEN 4
    ELSE IF
        \/ includes(text, <<"c", "o", "m", "p", "l", "e", "x">>)
        \/ includes(text, <<"r", "a", "r", "e", " ", "c", "o", "m", "p", "o", "n", "e", "n",
                              "t", "s">>)
        \/ includes(text, <<"s", "p", "e", "c", "i", "a", "l", " ", "r", "e", "q", "u", "i",
                              "r", "e", "m", "e", "n", "t", "s">>)
    THEN 5
    ELSE result

\* case 'humidity'
caseHumidity(text) ==
    IF
        \/ includes(text, <<"l", "o", "w", " ", "h", "u", "m", "i", "d", "i", "t", "y">>)
        \/ includes(text, <<"a", "v", "e", "r", "a", "g", "e", " ", "h", "o", "u", "s", "e",
                              "h", "o", "l", "d">>)
        \/ includes(text, <<"s", "u", "f", "f", "i", "c", "i", "e", "n", "t">>)
    THEN 1
    ELSE IF
        \/ (includes(text, <<"c", "a", "n", " ", "t", "o", "l", "e", "r", "a", "t", "e">>)
            /\ includes(text, <<"h", "u", "m", "i", "d", "i", "t", "y">>))
    THEN 2
    ELSE IF
        \/ includes(text, <<"m", "o", "d", "e", "r", "a", "t", "e", " ", "h", "u", "m", "i",
                              "d", "i", "t", "y">>)
        \/ includes(text, <<"a", "b", "o", "v", "e", " ", "5", "0", "%">>)
        \/ includes(text, <<"a", "b", "o", "v", "e", " ", "4", "0", "%">>)
    THEN 3
    ELSE IF
        \/ includes(text, <<"m", "i", "s", "t", "i", "n", "g">>)
        \/ includes(text, <<"h", "u", "m", "i", "d", "i", "f", "i", "e", "r">>)
        \/ includes(text, <<"h", "u", "m", "i", "d", "i", "t", "y", " ", "t", "r", "a", "y">>)
    THEN 4
    ELSE IF
        \/ includes(text, <<"h", "i", "g", "h", " ", "h", "u", "m", "i", "d", "i", "t", "y">>)
        \/ includes(text, <<"a", "b", "o", "v", "e", " ", "6", "0", "%">>)
        \/ includes(text, <<"h", "u", "m", "i", "d", " ", "e", "n", "v", "i", "r", "o", "n",
                              "m", "e", "n", "t", "s">>)
    THEN 5
    ELSE result

\* case 'fertilizer': a || b && c is a || (b && c)
caseFertilizer(text) ==
    IF
        \/ includes(text, <<"s", "p", "a", "r", "i", "n", "g", "l", "y">>)
        \/ includes(text, <<"o", "n", "c", "e", " ", "i", "n", " ", "t", "h", "e", " ", "s",
                              "p", "r", "i", "n", "g">>)
        \/ includes(text, <<"e", "v", "e", "r", "y", " ", "2", "-", "3", " ", "m", "o", "n",
                              "t", "h", "s">>)
    THEN 1
    ELSE IF
        \/ includes(text, <<"e", "v", "e", "r", "y", " ", "4", "-", "6", " ", "w", "e", "e",
                              "k", "s">>)
        \/ includes(text, <<"m", "o", "n", "t", "h", "l", "y">>)
    THEN 2
    ELSE IF
        \/ includes(text, <<"e", "v", "e", "r", "y", " ", "2", "-", "4", " ", "w", "e", "e",
                              "k", "s">>)
        \/ (includes(text, <<"b", "a", "l", "a", "n", "c", "e", "d">>)
            /\ includes(text, <<"g", "r", "o", "w", "i", "n", "g", " ", "s", "e", "a", "s",
                                  "o", "n">>))
    THEN 3
    ELSE IF
        \/ includes(text, <<"w", "e", "e", "k", "l", "y">>)
        \/ includes(text, <<"f", "r", "e", "q", "u", "e", "n", "t">>)
    THEN 4
    ELSE IF
        \/ includes(text, <<"d", "a", "i", "l", "y">>)
        \/ includes(text, <<"c", "o", "n", "s", "t", "a", "n", "t", " ", "f", "e", "e", "d",
                              "i", "n", "g">>)
    THEN 5
    ELSE result

\* case 'maintenance'
caseMaintenance(text) ==
    IF
        \/ includes(text, <<"m", "i", "n", "i", "m", "a", "l">>)
        \/ includes(text, <<"o", "c", "c", "a", "s", "i", "o", "n", "a", "l">>)
        \/ includes(text, <<"c", "l", "e", "a", "n", " ", "t", "h", "e", " ", "l", "e", "a",
                              "v", "e", "s", " ", "o", "c", "c", "a", "s", "i", "o", "n", "a",
                              "l", "l", "y">>)
    THEN 1
    ELSE IF
        \/ includes(text, <<"r", "e", "m", "o", "v", "e", " ", "y", "e", "l", "l", "o", "w">>)
        \/ includes(text, <<"r", "e", "p", "o", "t", " ", "e", "v", "e", "r", "y", " ", "2",
                              "-", "3", " ", "y", "e", "a", "r", "s">>)
    THEN 2
    ELSE IF
        \/ includes(text, <<"t", "r", "i", "m">>)
        \/ includes(text, <<"r", "e", "p", "o", "t", " ", "e", "v", "e", "r", "y", " ", "1",
                              "-", "2", " ", "y", "e", "a", "r", "s">>)
    THEN 3
    ELSE IF
        \/ includes(text, <<"r", "e", "g", "u", "l", "a", "r", "l", "y", " ", "p", "r", "u",
                              "n", "e">>)
        \/ includes(text, <<"p", "i", "n", "c", "h", " ", "b", "a", "c", "k">>)
        \/ includes(text, <<"c", "o", "n", "t", "r", "o", "l", " ", "g", "r", "o", "w", "t",
                              "h">>)
    THEN 4
    ELSE IF
        \/ includes(text, <<"d", "a", "i", "l", "y", " ", "c", "a", "r", "e">>)
        \/ includes(text, <<"c", "o", "n", "s", "t", "a", "n", "t", " ", "a", "t", "t", "e",
                              "n", "t", "i", "o", "n">>)
    THEN 5
    ELSE result

\* the switch of getCareLevel on the lower-cased text; a careType without a
\* case leaves result as it is
switchOnCareType(text, careType) ==
    CASE careType = "light" -> caseLight(text)
      [] careType = "water" -> caseWater(text)
      [] careType = "soil" -> caseSoil(text)
      [] careType = "humidity" -> caseHumidity(text)
      [] careType = "fertilizer" -> caseFertilizer(text)
      [] careType = "maintenance" -> caseMaintenance(text)
      [] OTHER -> result

\* a getCareLevel that tests `careText === undefined` and so takes the empty
\* text for a text
getCareLevel_EmptyIsText(careText, careType) ==
    IF careText = NoText THEN 0
    ELSE switchOnCareType(toLowerCase(careText), careType)

\* getCareLevel(careText, careType): `if (!careText) return 0`, then the
\* switch on careText.toLowerCase()
getCareLevel(careText, careType) ==
    IF careText = NoText \/ careText = <<>> THEN 0
    ELSE switchOnCareType(toLowerCase(careText), careType)

CareTypes == {"light", "water", "soil", "humidity", "fertilizer", "maintenance"}

\* care texts: for every dimension a short text of each level, longer
\* texts that hold several patterns, upper case, and texts with no pattern
CareTexts ==
    { NoText, <<>>,
      <<" ">>,
      <<"n", "/", "a">>,
      <<"t", "r", "i", "m">>,
      <<"d", "a", "i", "l", "y">>,
      <<"b", "r", "i", "g", "h", "t">>,
      <<"c", "a", "c", "t", "u", "s">>,
      <<"w", "e", "e", "k", "l", "y">>,
      <<"c", "o", "m", "p", "l", "e", "x">>,
      <<"m", "i", "n", "i", "m", "a", "l">>,
      <<"m", "i", "s", "t", "i", "n", "g">>,
      <<"m", "o", "n", "t", "h", "l", "y">>,
      <<"f", "u", "l", "l", " ", "s", "u", "n">>,
      <<"t", "o", "p", " ", "i", "n", "c", "h">>,
      <<"a", "b", "o", "v", "e", " ", "5", "0", "%">>,
      <<"a", "b", "o", "v", "e", " ", "6", "0", "%">>,
      <<"l", "o", "w", " ", "l", "i", "g", "h", "t">>,
      <<"r", "e", "g", "u", "l", "a", "r", "l", "y">>,
      <<"s", "p", "a", "r", "i", "n", "g", "l", "y">>,
      <<"d", "a", "i", "l", "y", " ", "c", "a", "r", "e">>,
      <<"p", "i", "n", "c", "h", " ", "b", "a", "c", "k">>,
      <<"s", "u", "f", "f", "i", "c", "i", "e", "n", "t">>,
      <<"E", "V", "E", "N", "L", "Y", " ", "M", "O", "I", "S", "T">>,
      <<"e", "v", "e", "n", "l", "y", " ", "m", "o", "i", "s", "t">>,
      <<"w", "i", "l", "t", " ", "q", "u", "i", "c", "k", "l", "y">>,
      <<"p", "a", "r", "t", "i", "a", "l", " ", "s", "h", "a", "d", "e">>,
      <<"r", "e", "m", "o", "v", "e", " ", "y", "e", "l", "l", "o", "w">>,
      <<"W", "a", "t", "e", "r", " ", "r", "e", "g", "u", "l", "a", "r",
          "l", "y">>,
      <<"b", "r", "i", "g", "h", "t", " ", "i", "n", "d", "i", "r", "e",
          "c", "t">>,
      <<"e", "v", "e", "r", "y", " ", "2", "-", "4", " ", "w", "e", "e",
          "k", "s">>,
      <<"w", "e", "l", "l", "-", "d", "r", "a", "i", "n", "i", "n", "g",
          " ", "p", "e", "a", "t">>,
      <<"m", "u", "l", "t", "i", "p", "l", "e", " ", "c", "o", "m", "p",
          "o", "n", "e", "n", "t", "s">>,
      <<"c", "a", "n", " ", "t", "o", "l", "e", "r", "a", "t", "e", " ",
          "h", "u", "m", "i", "d", "i", "t", "y">>,
      <<"s", "t", "a", "n", "d", "a", "r", "d", " ", "p", "o", "t", "t",
          "i", "n", "g", " ", "s", "o", "i", "l">>,
      <<"R", "e", "g", "u", "l", "a", "r", "l", "y", " ", "p", "r", "u",
          "n", "e", " ", "a", "n", "d", " ", "t", "r", "i", "m">>,
      <<"C", "a", "n", " ", "t", "o", "l", "e", "r", "a", "t", "e", " ",
          "l", "o", "w", " ", "h", "u", "m", "i", "d", "i", "t", "y">>,
      <<"K", "e", "e", "p", " ", "t", "h", "e", " ", "s", "o", "i", "l",
          " ", "c", "o", "n", "s", "i", "s", "t", "e", "n", "t", "l", "y",
          " ", "m", "o", "i", "s", "t">>,
      <<"D", "r", "o", "u", "g", "h", "t", "-", "t", "o", "l", "e", "r",
          "a", "n", "t", ";", " ", "w", "a", "t", "e", "r", " ", "s", "p",
          "a", "r", "i", "n", "g", "l", "y">>,
      <<"T", "o", "p", " ", "i", "n", "c", "h", " ", "d", "r", "y", ",",
          " ", "t", "h", "e", "n", " ", "w", "a", "t", "e", "r", " ", "r",
          "e", "g", "u", "l", "a", "r", "l", "y">>,
      <<"S", "p", "a", "r", "i", "n", "g", "l", "y", ",", " ", "w", "h",
          "e", "n", " ", "t", "h", "e", " ", "t", "o", "p", " ", "i", "n",
          "c", "h", " ", "i", "s", " ", "d", "r", "y">>,
      <<"A", "l", "l", "o", "w", " ", "t", "h", "e", " ", "s", "o", "i",
          "l", " ", "t", "o", " ", "d", "r", "y", " ", "o", "u", "t", " ",
          "c", "o", "m", "p", "l", "e", "t", "e", "l", "y">>,
      <<"W", "a", "t", "e", "r", " ", "r", "e", "g", "u", "l", "a", "r",
          "l", "y", ",", " ", "l", "e", "a", "v", "e", "s", " ", "w", "i",
          "l", "t", " ", "q", "u", "i", "c", "k", "l", "y">>,
      <<"B", "r", "i", "g", "h", "t", ",", " ", "i", "n", "d", "i", "r",
          "e", "c", "t", " ", "l", "i", "g", "h", "t", ";", " ", "t", "o",
          "l", "e", "r", "a", "t", "e", "s", " ", "s", "h", "a", "d", "e">>,
      <<"L", "e", "t", " ", "t", "h", "e", " ", "t", "o", "p", " ", "i",
          "n", "c", "h", " ", "d", "r", "y", " ", "o", "u", "t", " ", "b",
          "e", "t", "w", "e", "e", "n", " ", "w", "a", "t", "e", "r", "i",
          "n", "g", "s">>,
      <<"E", "v", "e", "n", "l", "y", " ", "m", "o", "i", "s", "t", ",",
          " ", "b", "u", "t", " ", "w", "a", "t", "e", "r", " ", "s", "p",
          "a", "r", "i", "n", "g", "l", "y", " ", "i", "n", " ", "w", "i",
          "n", "t", "e", "r">>,
      <<"W", "e", "l", "l", "-", "d", "r", "a", "i", "n", "i", "n", "g",
          " ", "m", "i", "x", " ", "o", "f", " ", "p", "e", "a", "t", " ",
          "a", "n", "d", " ", "b", "a", "r", "k", " ", "a", "n", "d", " ",
          "s", "a", "n", "d">>,
      <<"W", "a", "t", "e", "r", " ", "c", "o", "n", "s", "i", "s", "t",
          "e", "n", "t", "l", "y", " ", "t", "o", " ", "k", "e", "e", "p",
          " ", "s", "o", "i", "l", " ", "e", "v", "e", "n", "l", "y", " ",
          "m", "o", "i", "s", "t">>,
      <<"B", "a", "l", "a", "n", "c", "e", "d", " ", "f", "e", "r", "t",
          "i", "l", "i", "z", "e", "r", " ", "i", "n", " ", "t", "h", "e",
          " ", "g", "r", "o", "w", "i", "n", "g", " ", "s", "e", "a", "s",
          "o", "n", ",", " ", "m", "o", "n", "t", "h", "l", "y">>,
      <<"W", "a", "t", "e", "r", " ", "r", "e", "g", "u", "l", "a", "r",
          "l", "y", " ", "t", "o", " ", "k", "e", "e", "p", " ", "m", "o",
          "i", "s", "t", ";", " ", "s", "e", "n", "s", "i", "t", "i", "v",
          "e", " ", "t", "o", " ", "d", "r", "o", "u", "g", "h", "t">> }

\* the care records calculateDifficulty is run on: every field is missing
\* or holds one short text for each level of its dimension
CareRecords ==
    [light_requirements :
        { NoText,
          <<"l", "o", "w", " ", "l", "i", "g", "h", "t">>,
          <<"p", "a", "r", "t", "i", "a", "l", " ", "s", "h", "a", "d",
              "e">>,
          <<"b", "r", "i", "g", "h", "t", " ", "i", "n", "d", "i", "r",
              "e", "c", "t">>,
          <<"b", "r", "i", "g", "h", "t">>,
          <<"f", "u", "l", "l", " ", "s", "u", "n">> },
     watering_needs :
        { NoText,
          <<"s", "p", "a", "r", "i", "n", "g", "l", "y">>,
          <<"t", "o", "p", " ", "i", "n", "c", "h">>,
          <<"r", "e", "g", "u", "l", "a", "r", "l", "y">>,
          <<"e", "v", "e", "n", "l", "y", " ", "m", "o", "i", "s", "t">>,
          <<"w", "i", "l", "t", " ", "q", "u", "i", "c", "k", "l", "y">> },
     soil_preferences :
        { NoText,
          <<"c", "a", "c", "t", "u", "s">>,
          <<"s", "t", "a", "n", "d", "a", "r", "d", " ", "p", "o", "t",
              "t", "i", "n", "g", " ", "s", "o", "i", "l">>,
          <<"w", "e", "l", "l", "-", "d", "r", "a", "i", "n", "i", "n",
              "g", " ", "p", "e", "a", "t">>,
          <<"m", "u", "l", "t", "i", "p", "l", "e", " ", "c", "o", "m",
              "p", "o", "n", "e", "n", "t", "s">>,
          <<"c", "o", "m", "p", "l", "e", "x">> },
     temperature_humidity :
        { NoText,
          <<"s", "u", "f", "f", "i", "c", "i", "e", "n", "t">>,
          <<"c", "a", "n", " ", "t", "o", "l", "e", "r", "a", "t", "e",
              " ", "h", "u", "m", "i", "d", "i", "t", "y">>,
          <<"a", "b", "o", "v", "e", " ", "5", "0", "%">>,
          <<"m", "i", "s", "t", "i", "n", "g">>,
          <<"a", "b", "o", "v", "e", " ", "6", "0", "%">> },
     fertilization :
        { NoText,
          <<"s", "p", "a", "r", "i", "n", "g", "l", "y">>,
          <<"m", "o", "n", "t", "h", "l", "y">>,
          <<"e", "v", "e", "r", "y", " ", "2", "-", "4", " ", "w", "e",
              "e", "k", "s">>,
          <<"w", "e", "e", "k", "l", "y">>,
          <<"d", "a", "i", "l", "y">> },
     pruning_maintenance :
        { NoText,
          <<"m", "i", "n", "i", "m", "a", "l">>,
          <<"r", "e", "m", "o", "v", "e", " ", "y", "e", "l", "l", "o",
              "w">>,
          <<"t", "r", "i", "m">>,
          <<"p", "i", "n", "c", "h", " ", "b", "a", "c", "k">>,
          <<"d", "a", "i", "l", "y", " ", "c", "a", "r", "e">> }]

\* a bucketing on the whole part of the average
difficultyLevel_Truncating(sum) ==
    IF sum \div 6 <= 1 THEN 1
    ELSE IF sum \div 6 <= 2 THEN 2
    ELSE IF sum \div 6 <= 3 THEN 3
    ELSE IF sum \div 6 <= 4 THEN 4
    ELSE 5

\* a bucketing that calls a plant without any care text medium
difficultyLevel_UnknownIsMedium(sum) ==
    IF sum = 0 THEN 3
    ELSE IF 10 * sum <= 18 * 6 THEN 1
    ELSE IF 10 * sum <= 25 * 6 THEN 2
    ELSE IF 10 * sum <= 33 * 6 THEN 3
    ELSE IF 10 * sum <= 42 * 6 THEN 4
    ELSE 5

\* the thresholds of calculateDifficulty on avgDifficulty = sum / 6:
\* sum / 6 <= 1.8 is 10 * sum <= 18 * 6, and so on.  (The only average
\* that meets a threshold exactly is 15 / 6 = 2.5, which a double holds
\* exactly.)
difficultyLevel(sum) ==
    IF 10 * sum <= 18 * 6 THEN 1
    ELSE IF 10 * sum <= 25 * 6 THEN 2
    ELSE IF 10 * sum <= 33 * 6 THEN 3
    ELSE IF 10 * sum <= 42 * 6 THEN 4
    ELSE 5

\* the six levels calculateDifficulty reads off the care record
careLevels(care) ==
    <<getCareLevel(care.light_requirements, "light"),
      getCareLevel(care.watering_needs, "water"),
      getCareLevel(care.soil_preferences, "soil"),
      getCareLevel(care.temperature_humidity, "humidity"),
      getCareLevel(care.fertilization, "fertilizer"),
      getCareLevel(care.pruning_maintenance, "maintenance")>>

calculateDifficulty(care) ==
    LET l == careLevels(care)
    IN  difficultyLevel(l[1] + l[2] + l[3] + l[4] + l[5] + l[6])

CallGetCareLevel ==
    /\ call = NoCall
    /\ \E careText \in CareTexts, careType \in CareTypes \cup {"temperature"} :
        /\ call' = [fn |-> "getCareLevel", careText |-> careText, careType |-> careType]
        /\ ret' = getCareLevel(careText, careType)
        /\ UNCHANGED uiVars

\* levels keeps the six locals of the call next to the value returned
CallCalculateDifficulty ==
    /\ call = NoCall
    /\ \E care \in CareRecords :
        /\ call' = [fn |-> "calculateDifficulty", care |-> care,
                                                  levels |-> careLevels(care)]
        /\ ret' = calculateDifficulty(care)
        /\ UNCHANGED uiVars

(***************************************************************************)
(* plantIdentification.js also holds identifyPlantWithCNN with a mock      *)
(* fallback: its catch block returns mockPlantIdentification(imageFile).   *)
(***************************************************************************)
\* what mockPlantIdentification draws: Math.random() < 0.9, the index into
\* availablePlants, the two mock confidences (in percent), and what the
\* awaited getPlantCareData(selectedPlant) gave: a record with care, a
\* record without, or nothing
MockDraws ==
    [lucky : BOOLEAN,
     pick : 1..Len(availablePlants),
     careData : {"record", "noCare", "notFound"},
     confidence : {70, 99},
     entryConfidence : {70, 99}]

\* mockPlantIdentification: how its promise settles
mockPlantIdentification(draw) ==
    IF draw.lucky
    THEN LET selectedPlant == availablePlants[draw.pick]
         IN  [threw |-> FALSE,
              value |-> [name |-> selectedPlant,
                         care |-> IF draw.careData = "record" THEN "record" ELSE "{}",
                         url |-> IF draw.careData = "notFound" THEN "null" ELSE "url",
                         confidence |-> draw.confidence,
                         predictions |-> <<[name |-> selectedPlant,
                                            confidence |-> draw.entryConfidence,
                                            mock |-> TRUE]>>]]
    ELSE \* throw new Error('Model confidence too low')
         [threw |-> TRUE, value |-> Null]

\* identifyPlantWithCNN with the fallback: a response with care data is
\* returned as a plant, every failure inside the try block ends in the mock
identifyPlantWithCNN_MockFallback(resp, draw) ==
    IF resp.kind = "plant"
    THEN [threw |-> FALSE,
          value |-> [name |-> resp.name,
                     care |-> IF resp.hasCare THEN "record" ELSE "{}",
                     url |-> "url",
                     confidence |-> PlantConfidence(resp),
                     predictions |-> IF resp.hasAll THEN resp.all ELSE Undefined]]
    ELSE mockPlantIdentification(draw)

CallIdentifyPlantWithCNN ==
    /\ call = NoCall
    /\ \E resp \in Responses :
        /\ call' = [fn |-> "identifyPlantWithCNN", fallback |-> "none", resp |-> resp]
        /\ ret' = identifyPlantWithCNN(resp)
        /\ UNCHANGED uiVars

CallIdentifyPlantWithMockFallback ==
    /\ call = NoCall
    /\ \E resp \in Responses, draw \in MockDraws :
        /\ call' = [fn |-> "identifyPlantWithCNN", fallback |-> "mock", resp |-> resp,
                                                   draw |-> draw]
        /\ ret' = identifyPlantWithCNN_MockFallback(resp, draw)
        /\ UNCHANGED uiVars

FnNext ==
    \/ CallIdentifyPlantWithCNN
    \/ CallIdentifyPlantWithMockFallback
    \/ CallGetPlantCareData
    \/ CallGetLocalPlantCareData
    \/ CallGetCareLevel
    \/ CallCalculateDifficulty

\* the helper functions, each called on every input of its input set
FnSpec == Init /\ [][FnNext]_vars

(***************************************************************************)
(* C1.  A response of a request issued before a reset never changes the    *)
(* flow state after that reset: the step that completes such a request     *)
(* leaves plantData and error as they were.                                *)
(***************************************************************************)
C1_StaleResponseIgnored ==
    [][lastOp' = Op("completedStale") =>
          (plantData' = plantData /\ error' = error)]_vars

(***************************************************************************)
(* C2.  At most one classification request is outstanding in every         *)
(* reachable state.                                                        *)
(***************************************************************************)
C2_AtMostOneOutstanding == outstanding + staleOutstanding <= 1

(***************************************************************************)
(* C3.  In the state right after handleReset the flow is Idle with nothing *)
(* retained, and only the upload control is shown.                         *)
(***************************************************************************)
C3_ResetRetainsNothing ==
    lastOp = Op("reset") =>
        /\ plantData = Null
        /\ error = NoError
        /\ loading = FALSE
        /\ showPredictions = FALSE
        /\ predictions = <<>>
        /\ selectedFromPredictions = FALSE
        /\ ImageUploadVisible
        /\ ~SpinnerVisible
        /\ ~ErrorContainerVisible
        /\ ~PredictionSelectorVisible
        /\ ~PlantInfoVisible

\* a reset taken while a request was still in flight
C3_Witness == lastOp = Op("reset") /\ staleOutstanding > 0 /\ ImageUploadVisible

(***************************************************************************)
(* C4.  After selecting an entry of the prediction list, the displayed     *)
(* plant has that entry's name and its predictions field still holds all   *)
(* the entries of the list.                                                *)
(***************************************************************************)
C4_SelectedKeepsPredictions ==
    lastOp = Op("select") =>
        /\ \E i \in 1..Len(predictions) : plantData.name = predictions[i].name
        /\ "predictions" \in DOMAIN plantData
        /\ plantData.predictions = predictions

(***************************************************************************)
(* C5.  While an error message is set, the retry button is the only        *)
(* control: no upload control, no prediction list, no plant view.          *)
(***************************************************************************)
C5_ErrorIsTerminal ==
    error # NoError =>
        /\ ErrorContainerVisible
        /\ ~ImageUploadVisible
        /\ ~PredictionSelectorVisible
        /\ ~PlantInfoVisible

(***************************************************************************)
(* C6.  While loading is true no user action is enabled: no upload, reset, *)
(* try again, select or back.                                              *)
(***************************************************************************)
C6_LoadingHasNoControls ==
    loading =>
        /\ ~ImageUploadVisible
        /\ ~ResetAvailable
        /\ ~TryAgainEnabled
        /\ ~PredictionSelectorVisible
        /\ ~BackButtonVisible

C8_FlagMatchesOrigin ==
    PlantInfoVisible => (selectedFromPredictions <=> plantOrigin = "selection")

(***************************************************************************)
(* C9.  The completion of a request that ends a Loading state sets exactly *)
(* one of plantData and error and sets loading to false in the same step;  *)
(* and, every request being answered, a Loading state is followed by       *)
(* Result or Error unless the user resets first.                           *)
(***************************************************************************)
C9_LoadingEndsInResultOrError ==
    /\ [][(loading /\ lastOp'.op \in {"completed", "completedStale"}) =>
             /\ loading' = FALSE
             /\ (plantData' # Null) # (error' # NoError)]_vars
    /\ (loading ~> (Result \/ ErrorState \/ lastOp = Op("reset")))

C9_Witness == lastOp = Op("completed") /\ Result /\ outstanding = 0

\* "starts with image/", spelled out character by character
IsImageType(t) ==
    /\ Len(t) >= 6
    /\ t[1] = "i" /\ t[2] = "m" /\ t[3] = "a" /\ t[4] = "g" /\ t[5] = "e" /\ t[6] = "/"

(***************************************************************************)
(* C10.  handleFiles rejects a file whose type does not start with image/  *)
(* (checked first) or whose size is strictly above 10 MB: the error is     *)
(* set, loading is not set and no request is issued; any other file is     *)
(* sent.                                                                   *)
(***************************************************************************)
C10_ValidationBeforeRequest ==
    [][lastOp'.op = "handleFiles" =>
          LET f == lastOp'.file
              issued == outstanding' + staleOutstanding' # outstanding + staleOutstanding
          IN  /\ ~IsImageType(f.type) =>
                    error' = MsgNotImage /\ ~loading' /\ ~issued
              /\ (IsImageType(f.type) /\ f.size > 10485760) =>
                    error' = MsgTooLarge /\ ~loading' /\ ~issued
              /\ (IsImageType(f.type) /\ f.size <= 10485760) =>
                    loading' /\ outstanding' = outstanding + 1 /\ error' = error]_vars

\* a file of exactly 10 MB was sent
C10_Witness ==
    /\ lastOp.op = "handleFiles"
    /\ lastOp.file.size = MaxFileSize
    /\ loading
    /\ outstanding = 1

(***************************************************************************)
(* C11.  When the classification request fails in transport or is answered *)
(* with a status outside 2xx, identifyPlantWithCNN returns no plant        *)
(* record: its promise gives null or rejects, and handleFiles reports an   *)
(* error.                                                                  *)
(***************************************************************************)
C11_FailedRequestGivesNoPlant ==
    (call.fn = "identifyPlantWithCNN" /\ call.resp.kind \in {"networkError", "httpError"})
        => (ret.threw \/ ret.value = Null)

(***************************************************************************)
(* Comparing strings letter by letter, for the statements about            *)
(* getPlantCareData.                                                       *)
(***************************************************************************)
SameLetter(x, y) ==
    \/ x = y
    \/ \E k \in 1..26 : {x, y} = {UpperCaseLetters[k], LowerCaseLetters[k]}

EqualIgnoringCase(a, b) ==
    /\ Len(a) = Len(b)
    /\ \A k \in 1..Len(a) : SameLetter(a[k], b[k])

\* b occurs in a, whatever the case of the letters (the empty b occurs in
\* every a)
ContainsIgnoringCase(a, b) ==
    \E at \in 0..(Len(a) - Len(b)) : \A k \in 1..Len(b) : SameLetter(a[at + k], b[k])

RECURSIVE WithoutBlanksAround(_)
WithoutBlanksAround(s) ==
    IF s = <<>> THEN s
    ELSE IF Head(s) \in {" ", "\t", "\n"} THEN WithoutBlanksAround(Tail(s))
    ELSE IF s[Len(s)] \in {" ", "\t", "\n"}
         THEN WithoutBlanksAround(SubSeq(s, 1, Len(s) - 1))
    ELSE s

UniqueIgnoringCase(catalog) ==
    \A i, j \in 1..Len(catalog) :
        EqualIgnoringCase(catalog[i].name, catalog[j].name) => i = j

NotFound(value) == value = Null \/ value = Undefined

(***************************************************************************)
(* C12.  In a catalog whose names are unique whatever the case of their    *)
(* letters, getPlantCareData called with the name of an entry, in any      *)
(* letter case, returns that entry, also when the name of another entry    *)
(* contains it or is contained in it.                                      *)
(***************************************************************************)
C12_NameInAnyCaseGivesItsEntry ==
    (call.fn = "getPlantCareData" /\ UniqueIgnoringCase(call.plantCareData)) =>
        \A i \in 1..Len(call.plantCareData) :
            EqualIgnoringCase(call.plantName, call.plantCareData[i].name)
                => ret = call.plantCareData[i]

\* the name in another letter case, found behind an entry whose name
\* contains it
C12_Witness ==
    /\ call.fn = "getPlantCareData"
    /\ \E i, j \in 1..Len(call.plantCareData) :
        /\ i < j
        /\ ContainsIgnoringCase(call.plantCareData[i].name, call.plantName)
        /\ EqualIgnoringCase(call.plantName, call.plantCareData[j].name)
        /\ call.plantName # call.plantCareData[j].name
        /\ ret = call.plantCareData[j]

C14_SynonymKeyGivesItsTarget ==
    (call.fn = "getPlantCareData" /\ call.plantCareData = KnownCatalog) =>
        \A k \in 1..Len(nameMapping) :
            call.plantName = nameMapping[k][1]
                => (~NotFound(ret) /\ ret.name = nameMapping[k][2])

(***************************************************************************)
(* C15.  For each of the six dimensions, and for a dimension it does not   *)
(* know, getCareLevel returns 0 exactly when the text is missing or empty, *)
(* and an integer from 1 to 5 otherwise.                                   *)
(***************************************************************************)
C15_ZeroExactlyWhenTextMissing ==
    call.fn = "getCareLevel" =>
        /\ ret = 0 <=> (call.careText = NoText \/ Len(call.careText) = 0)
        /\ ret # 0 => ret \in 1..5

\* the empty text under a dimension without a case
C15_Witness ==
    /\ call.fn = "getCareLevel"
    /\ call.careText = <<>>
    /\ call.careType \notin CareTypes
    /\ ret = 0

(***************************************************************************)
(* C16.  calculateDifficulty returns an integer from 1 to 5 for every      *)
(* combination of six levels from 0 to 5: 1 for a sum of at most 10, 2 up  *)
(* to 15, 3 up to 19, 4 up to 25 and 5 above; six levels of 1 give 1, six  *)
(* levels of 5 give 5, and a record with no care text gives 1.             *)
(***************************************************************************)
C16_DifficultyBuckets ==
    call.fn = "calculateDifficulty" =>
        LET l == call.levels
            sum == l[1] + l[2] + l[3] + l[4] + l[5] + l[6]
        IN  /\ \A k \in 1..6 : l[k] \in 0..5
            /\ ret \in 1..5
            /\ ret = 1 <=> sum <= 10
            /\ ret = 2 <=> (10 < sum /\ sum <= 15)
            /\ ret = 3 <=> (15 < sum /\ sum <= 19)
            /\ ret = 4 <=> (19 < sum /\ sum <= 25)
            /\ ret = 5 <=> 25 < sum
            /\ l = <<1, 1, 1, 1, 1, 1>> => ret = 1
            /\ l = <<5, 5, 5, 5, 5, 5>> => ret = 5
            /\ (\A f \in DOMAIN call.care : call.care[f] = NoText) => ret = 1

\* a sum of 11: an average just above 1.8
C16_Witness ==
    /\ call.fn = "calculateDifficulty"
    /\ call.levels = <<5, 5, 1, 0, 0, 0>>
    /\ ret = 2

(***************************************************************************)
(* C17.  calculateDifficulty is monotonic in each of the six levels: with  *)
(* the other five levels as they are, a higher level (up to 5) in one      *)
(* dimension never gives a lower difficulty.                               *)
(***************************************************************************)
C17_DifficultyMonotonic ==
    call.fn = "calculateDifficulty" =>
        LET l == call.levels
            sum == l[1] + l[2] + l[3] + l[4] + l[5] + l[6]
        IN  \A k \in 1..6 : \A higher \in (l[k] + 1)..5 :
                difficultyLevel(sum - l[k] + higher) >= ret

\* one level more in one dimension moves the plant to the next difficulty
C17_Witness ==
    /\ call.fn = "calculateDifficulty"
    /\ call.levels = <<3, 3, 2, 1, 1, 0>>
    /\ ret = 1
    /\ difficultyLevel(11) = 2

(***************************************************************************)
(* C18.  Try Again, the selection of an entry and Back issue no            *)
(* classification request; Try Again shows the all_predictions sequence of *)
(* the response behind the result, same entries in the same order, and     *)
(* selecting and going back leave that list as it is.                      *)
(***************************************************************************)
C18_RevisitNeedsNoRequest ==
    [][/\ lastOp'.op \in {"tryAgain", "select", "back"} =>
            /\ outstanding' = outstanding
            /\ staleOutstanding' = staleOutstanding
            /\ loading' = loading
       /\ lastOp'.op = "tryAgain" =>
            /\ PredictionSelectorVisible'
            /\ predictions' = responseAll
       /\ lastOp'.op = "select" => predictions' = predictions
       /\ lastOp'.op = "back" =>
            /\ PredictionSelectorVisible'
            /\ predictions' = predictions]_vars

\* back on the list of two different entries after a selection, with no
\* request issued since the response
C18_Witness ==
    /\ lastOp = Op("back")
    /\ PredictionSelectorVisible
    /\ Len(predictions) >= 2
    /\ predictions[1].name # predictions[2].name
    /\ predictions[1].confidence < predictions[2].confidence
    /\ outstanding = 0
    /\ staleOutstanding = 0

(***************************************************************************)
(* The reference resolver of C19, as the positions of the catalog it       *)
(* names: the entries whose name is the label, those whose name contains   *)
(* the label or is contained in it, and those the synonym table names for  *)
(* the label (label: trimmed, letters compared whatever their case).       *)
(***************************************************************************)
ExactHits(label, catalog) ==
    {i \in 1..Len(catalog) : EqualIgnoringCase(catalog[i].name, label)}

PartialHits(label, catalog) ==
    {i \in 1..Len(catalog) :
        \/ ContainsIgnoringCase(catalog[i].name, label)
        \/ ContainsIgnoringCase(label, catalog[i].name)}

SynonymHits(label, catalog) ==
    {i \in 1..Len(catalog) :
        \E k \in 1..Len(nameMapping) :
            /\ EqualIgnoringCase(label, nameMapping[k][1])
            /\ catalog[i].name = nameMapping[k][2]}

First(hits) == CHOOSE i \in hits : \A j \in hits : i <= j

\* value is what the reference gives for the label
IsReferenceResult(value, plantName, catalog) ==
    LET label == WithoutBlanksAround(plantName)
        exact == ExactHits(label, catalog)
        partial == PartialHits(label, catalog)
        synonym == SynonymHits(label, catalog)
    IN  IF exact # {} THEN value = catalog[First(exact)]
        ELSE IF partial # {} THEN value = catalog[First(partial)]
        ELSE IF synonym # {} THEN value = catalog[First(synonym)]
        ELSE NotFound(value)

(***************************************************************************)
(* C19 as stated.  For every label and every catalog order,                *)
(* getPlantCareData returns what the reference gives: the entry whose name *)
(* is the trimmed label; else the first entry in catalog order whose name  *)
(* contains the label or is contained in it; else the entry the synonym    *)
(* table names; else not found.                                            *)
(***************************************************************************)
C19_EqualsReference ==
    call.fn = "getPlantCareData" =>
        IsReferenceResult(ret, call.plantName, call.plantCareData)

(***************************************************************************)
(* C19 as amended.  For every label but the empty one and every catalog    *)
(* order, getPlantCareData returns what the reference gives; for the empty *)
(* label it returns null.                                                  *)
(***************************************************************************)
C19_EqualsReferenceButForEmptyLabel ==
    call.fn = "getPlantCareData" =>
        IF call.plantName = <<>>
        THEN ret = Null
        ELSE IsReferenceResult(ret, call.plantName, call.plantCareData)

\* two names match in part, and the one that comes first in the catalog is
\* returned although the other one is shorter
C19_Witness ==
    /\ call.fn = "getPlantCareData"
    /\ ExactHits(WithoutBlanksAround(call.plantName), call.plantCareData) = {}
    /\ \E i, j \in PartialHits(WithoutBlanksAround(call.plantName), call.plantCareData) :
        /\ i < j
        /\ Len(call.plantCareData[j].name) < Len(call.plantCareData[i].name)
        /\ ret = call.plantCareData[i]

(***************************************************************************)
(* C20.  For the water dimension the first pattern found, in this order,   *)
(* decides: "consistently moist" or "evenly moist" give 4; else "dry out   *)
(* completely", "drought-tolerant" or "sparingly" give 1; else "dry out    *)
(* between" or "top inch" give 2; else "regularly" without "moist" gives   *)
(* 3; else "sensitive to drought" or "wilt quickly" give 5; else 3.  The   *)
(* text "Water consistently to keep soil evenly moist" gets 4.             *)
(***************************************************************************)
C20_WaterFirstHit ==
    (/\ call.fn = "getCareLevel"
     /\ call.careType = "water"
     /\ call.careText # NoText
     /\ call.careText # <<>>) =>
        LET text == call.careText
            moist ==
                \/ ContainsIgnoringCase(text, <<"c", "o", "n", "s", "i", "s", "t", "e", "n", "t",
                                                "l", "y", " ", "m", "o", "i", "s", "t">>)
                \/ ContainsIgnoringCase(text, <<"e", "v", "e", "n", "l", "y", " ", "m", "o", "i",
                                                "s", "t">>)
            dry ==
                \/ ContainsIgnoringCase(text, <<"d", "r", "y", " ", "o", "u", "t", " ", "c", "o",
                                                "m", "p", "l", "e", "t", "e", "l", "y">>)
                \/ ContainsIgnoringCase(text, <<"d", "r", "o", "u", "g", "h", "t", "-", "t", "o",
                                                "l", "e", "r", "a", "n", "t">>)
                \/ ContainsIgnoringCase(text, <<"s", "p", "a", "r", "i", "n", "g", "l", "y">>)
            between ==
                \/ ContainsIgnoringCase(text, <<"d", "r", "y", " ", "o", "u", "t", " ", "b", "e",
                                                "t", "w", "e", "e", "n">>)
                \/ ContainsIgnoringCase(text, <<"t", "o", "p", " ", "i", "n", "c", "h">>)
            regularly ==
                /\ ContainsIgnoringCase(text, <<"r", "e", "g", "u", "l", "a", "r", "l", "y">>)
                /\ ~ContainsIgnoringCase(text, <<"m", "o", "i", "s", "t">>)
            sensitive ==
                \/ ContainsIgnoringCase(text, <<"s", "e", "n", "s", "i", "t", "i", "v", "e", " ",
                                                "t", "o", " ", "d", "r", "o", "u", "g", "h", "t">>)
                \/ ContainsIgnoringCase(text, <<"w", "i", "l", "t", " ", "q", "u", "i", "c", "k",
                                                "l", "y">>)
            example ==
                <<"W", "a", "t", "e", "r", " ", "c", "o", "n", "s", "i", "s", "t", "e", "n",
                  "t", "l", "y", " ", "t", "o", " ", "k", "e", "e", "p", " ", "s", "o", "i",
                  "l", " ", "e", "v", "e", "n", "l", "y", " ", "m", "o", "i", "s", "t">>
        IN  /\ moist => ret = 4
            /\ (~moist /\ dry) => ret = 1
            /\ (~moist /\ ~dry /\ between) => ret = 2
            /\ (~moist /\ ~dry /\ ~between /\ regularly) => ret = 3
            /\ (~moist /\ ~dry /\ ~between /\ ~regularly /\ sensitive) => ret = 5
            /\ (~moist /\ ~dry /\ ~between /\ ~regularly /\ ~sensitive) => ret = 3
            /\ text = example => ret = 4

\* a text with a moist and a dry pattern gets the level of the moist one
C20_Witness ==
    /\ call.fn = "getCareLevel"
    /\ call.careType = "water"
    /\ ContainsIgnoringCase(call.careText, <<"e", "v", "e", "n", "l", "y", " ", "m", "o", "i", "s",
                                          "t">>)
    /\ ContainsIgnoringCase(call.careText, <<"s", "p", "a", "r", "i", "n", "g", "l", "y">>)
    /\ ret = 4

(***************************************************************************)
(* C21.  In every reachable state, after any interleaving of user actions  *)
(* and request completions, loading is never true together with            *)
(* showPredictions, and never true together with a plantData that is not   *)
(* null.                                                                   *)
(***************************************************************************)
C21_LoadingExcludesListAndResult ==
    loading => (~showPredictions /\ plantData = Null)

\* the spinner is on for a second request while the first one, issued before
\* a reset, is still in flight and an error message is on the screen
C21_Witness ==
    /\ loading
    /\ lastOp.op = "handleFiles"
    /\ outstanding = 1
    /\ staleOutstanding = 1
    /\ error # NoError
    /\ plantData = Null
    /\ ~showPredictions

(***************************************************************************)
(* C22.  Whenever a classification request is outstanding (issued and not  *)
(* yet completed), loading is true and the spinner is shown; loading turns *)
(* false only in a step that leaves no request outstanding.                *)
(***************************************************************************)
C22_OutstandingMeansLoading ==
    [][/\ outstanding' + staleOutstanding' > 0 => (loading' /\ SpinnerVisible')
       /\ (loading /\ ~loading') => outstanding' + staleOutstanding' = 0]_vars

(***************************************************************************)
(* C23.  In every reachable state in which an error message is set, no     *)
(* plant result and no prediction list is shown: plantData is null and     *)
(* showPredictions is false, after any sequence of user actions and        *)
(* request completions.                                                    *)
(***************************************************************************)
C23_ErrorShowsNoResultNoList ==
    error # NoError => (plantData = Null /\ ~showPredictions)

\* the failure of a request issued before a reset arrives after Try Again
\* has put the entries of a later response in the predictions cell: no list
\* is shown with the error, and the entries stay in the cell
C23_Witness ==
    /\ error = MsgNotIdentified
    /\ lastOp = Op("completedStale")
    /\ predictions # <<>>
    /\ plantData = Null
    /\ ~showPredictions
    /\ ErrorContainerVisible

(***************************************************************************)
(* C24.  Every plant result handed to PlantInfo has a defined care record  *)
(* (possibly with no fields), whether it came from the classification      *)
(* response or from selecting an entry of the prediction list, so the      *)
(* render of PlantInfo, which computes the care levels and the difficulty  *)
(* from it, never throws.                                                  *)
(***************************************************************************)
C24_DisplayedResultHasCare ==
    /\ ~crashed
    /\ plantData # Null => ~PlantInfoThrows(plantData)

(***************************************************************************)
(* C25.  A label that consists only of whitespace resolves to not found,   *)
(* like the empty label: getPlantCareData and getLocalPlantCareData return *)
(* no catalog record for it, for every catalog that has entries.           *)
(***************************************************************************)
C25_BlankLabelIsNotFound ==
    (/\ call.fn \in {"getPlantCareData", "getLocalPlantCareData"}
     /\ call.plantName # <<>>
     /\ \A k \in 1..Len(call.plantName) : call.plantName[k] \in WhiteSpace
     /\ call.plantCareData # <<>>)
        => NotFound(ret)

=============================================================================
